---------------------------- MODULE Spec2Model ----------------------------
(***************************************************************************)
(* A model of stubgen.py: the token translator simple_parse, the entity    *)
(* classes with their repair loop ParsedElement.check, and the batch       *)
(* driver that constructs, resolves and emits compound units.              *)
(*                                                                         *)
(* Text is modelled character by character: a Python str is a sequence of  *)
(* one-character strings, so that regular-expression rewrites, prefixes,   *)
(* identifier syntax and string equality are computed, not assumed.        *)
(*                                                                         *)
(* How the file is read where it does not run as written:                  *)
(*  - lines 422 and 423 stand in each other's place; the branch is read    *)
(*    as "elif member.tag in [...]: yield Type(member, container)", and    *)
(*    the compounds modelled have no <innerclass>, <innernamespace> or     *)
(*    <header> children;                                                   *)
(*  - line 603 calls Class(compounddef) without the container argument;    *)
(*    it is read as Class(compounddef, None);                              *)
(*  - line 631 (sh.black) lies after everything modelled.                  *)
(* The elements modelled have a <briefdescription> without text where the  *)
(* code reads one, no <defval>, and texts without "#", quotes and          *)
(* backslashes.  batch is the sequence of the <compounddef>s that pass the *)
(* tests of lines 598 and 602.  An exception that leaves Class(...) is     *)
(* caught nowhere: the run ends (pc = "aborted").                          *)
(***************************************************************************)
EXTENDS Integers, Sequences, FiniteSets, TLC

VARIABLES
    pin,        \* SpecParse: the text handed to simple_parse
    phist,      \* SpecParse: <<simple_parse(pin), simple_parse of that, ...>>
    ent,        \* SpecCheck: the object whose check() runs
    iter,       \* SpecCheck: the loop variable i of check()
    cpc,        \* SpecCheck: where the constructor is: "init" before check(), "loop" in
                \* it, "returned" or "raised" after it, "propagated" when the
                \* constructor of a part raised
    fixed,      \* SpecCheck: the numbers of the strategies applied, in order
    tries,      \* SpecCheck: the number of render attempts made
    batch,      \* the <compounddef> elements __main__ loads, in order
    units,      \* the compounds list of __main__: the Class objects constructed so far
    INSTANCES,  \* ParsedElement.INSTANCES: id -> object
    NAMESPACE,  \* ParsedElement.NAMESPACE: qualified name -> object
    pc,         \* where __main__ is
    resolved,   \* the number of units whose resolve() has returned
    files       \* the files written, in order

vars == <<pin, phist, ent, iter, cpc, fixed, tries, batch, units, INSTANCES, NAMESPACE,
          pc, resolved, files>>

---------------------------------------------------------------------------
(* Characters and strings                                                  *)

Lower == {"a","b","c","d","e","f","g","h","i","j","k","l","m",
          "n","o","p","q","r","s","t","u","v","w","x","y","z"}
Upper == {"A","B","C","D","E","F","G","H","I","J","K","L","M",
          "N","O","P","Q","R","S","T","U","V","W","X","Y","Z"}
Letters == Lower \cup Upper
Digits == {"0","1","2","3","4","5","6","7","8","9"}
\* \w of the re module, on the characters the model uses
WordChars == Letters \cup Digits \cup {"_"}
\* what str.strip() removes
Whitespace == {" ", "\t", "\n"}

Min(S) == CHOOSE x \in S : \A y \in S : x <= y

\* the element of a one-element set: The({e : v \in {x}}) is e with v for x,
\* x computed once
The(S) == CHOOSE x \in S : TRUE

\* s[i:] of Python, i counted from 1
Drop(s, i) == SubSeq(s, i, Len(s))

\* s.startswith(w) at offset i (i counted from 1)
MatchAt(s, i, w) ==
    /\ i >= 1
    /\ i + Len(w) - 1 <= Len(s)
    /\ SubSeq(s, i, i + Len(w) - 1) = w

StartsWith(s, w) == MatchAt(s, 1, w)

EndsWith(s, w) == Len(w) <= Len(s) /\ MatchAt(s, Len(s) - Len(w) + 1, w)

\* w in s
Contains(s, w) == \E i \in 1..Len(s) : MatchAt(s, i, w)

\* \b of the re module just before s[i], i in 1..Len(s)+1
AtB(s, i) ==
    LET before == i > 1 /\ i - 1 <= Len(s) /\ s[i - 1] \in WordChars
        after  == i >= 1 /\ i <= Len(s) /\ s[i] \in WordChars
    IN  before # after

\* the first offset >= i whose character is not in cs (Len(s)+1 if none)
Skip(s, i, cs) ==
    IF \E j \in i..Len(s) : s[j] \notin cs
    THEN Min({j \in i..Len(s) : s[j] \notin cs})
    ELSE IF i > Len(s) THEN i ELSE Len(s) + 1

\* re.sub / str.replace: m[i] is the offset just after the match that starts
\* at i, or 0 when nothing matches there; matches are taken left to right and
\* do not overlap.  Scan goes over the offsets lo..hi in order (the lower half,
\* then the upper half) with st = [at, out]: the offset the scan stands at
\* and the text written so far; offsets before st.at lie inside a match
RECURSIVE Scan(_, _, _, _, _, _)
Scan(s, m, repl, lo, hi, st) ==
    IF st.at > hi \/ lo > hi THEN st
    ELSE IF lo < hi
    THEN Scan(s, m, repl, (lo + hi) \div 2 + 1, hi,
              Scan(s, m, repl, lo, (lo + hi) \div 2, st))
    ELSE IF st.at # lo THEN st
    ELSE IF m[lo] > 0 THEN [at |-> m[lo], out |-> st.out \o repl]
    ELSE [at |-> lo + 1, out |-> Append(st.out, s[lo])]

Sub(s, m, repl, i) == Scan(s, m, repl, i, Len(s), [at |-> i, out |-> <<>>]).out

\* s.replace(old, new)
Replace(s, old, new) ==
    Sub(s, [i \in 1..Len(s) |-> IF MatchAt(s, i, old) THEN i + Len(old) ELSE 0], new, 1)

\* the end of a match of \b(alts[1]|alts[2]|...)\b at i, or 0
WordAltEnd(s, i, alts) ==
    IF ~AtB(s, i) THEN 0
    ELSE LET ok == {k \in 1..Len(alts) :
                        MatchAt(s, i, alts[k]) /\ AtB(s, i + Len(alts[k]))}
         IN  IF ok = {} THEN 0 ELSE i + Len(alts[Min(ok)])

\* re.sub(r"\b(alts[1]|alts[2]|...)\b", repl, s)
SubWords(s, alts, repl) ==
    Sub(s, [i \in 1..Len(s) |-> WordAltEnd(s, i, alts)], repl, 1)

\* s.strip()
RECURSIVE RStrip(_)
RStrip(s) ==
    IF s # <<>> /\ s[Len(s)] \in Whitespace THEN RStrip(SubSeq(s, 1, Len(s) - 1)) ELSE s

Strip(s) == RStrip(Drop(s, Skip(s, 1, Whitespace)))

\* re.sub("[^a-zA-Z]", "", s)
RECURSIVE OnlyLetters(_)
OnlyLetters(s) ==
    IF s = <<>> THEN <<>>
    ELSE (IF s[1] \in Letters THEN <<s[1]>> ELSE <<>>) \o OnlyLetters(Drop(s, 2))

\* "".join(seq of strings)
RECURSIVE Join(_)
Join(ss) == IF ss = <<>> THEN <<>> ELSE ss[1] \o Join(Drop(ss, 2))

\* a list built by a comprehension, as the tuple of its elements
List(f) == f \o <<>>


---------------------------------------------------------------------------
(* simple_parse: the token translator                                      *)

\* the end of "char +\*" at i, or 0
CharPtrEnd(s, i) ==
    IF ~MatchAt(s, i, <<"c","h","a","r">>) THEN 0
    ELSE LET k == Skip(s, i + 4, {" "})
         IN  IF k > i + 4 /\ k <= Len(s) /\ s[k] = "*" THEN k + 1 ELSE 0

\* the end of a match of \b(const +)?char +\* at i, or 0
ConstCharPtrEnd(s, i) ==
    IF ~AtB(s, i) THEN 0
    ELSE LET k == Skip(s, i + 5, {" "})
             withConst == IF MatchAt(s, i, <<"c","o","n","s","t">>) /\ k > i + 5
                          THEN CharPtrEnd(s, k) ELSE 0
         IN  IF withConst > 0 THEN withConst ELSE CharPtrEnd(s, i)

\* the end of a match of \bu?int[0-9]+(_t)?\b at i, or 0
SizedIntEnd(s, i) ==
    IF ~AtB(s, i) THEN 0
    ELSE LET j == IF MatchAt(s, i, <<"u">>) THEN i + 1 ELSE i
             d == Skip(s, j + 3, Digits)
         IN  IF ~MatchAt(s, j, <<"i","n","t">>) \/ d = j + 3 THEN 0
             ELSE IF MatchAt(s, d, <<"_","t">>) /\ AtB(s, d + 2) THEN d + 2
             ELSE IF AtB(s, d) THEN d
             ELSE 0

NativeInts == << <<"i","n","t">>, <<"s","h","o","r","t">>, <<"l","o","n","g">>, <<"b","y","t","e">>, <<"c","h","a","r">> >>

\* the offset after one " *(int|short|long|byte|char)" at i, or 0
NativeIntStep(s, i) ==
    LET j == Skip(s, i, {" "})
        ok == {k \in 1..Len(NativeInts) : MatchAt(s, j, NativeInts[k])}
    IN  IF ok = {} THEN 0 ELSE j + Len(NativeInts[Min(ok)])

\* the end of the longest run of such steps from i that ends on a \b, or 0
RECURSIVE NativeIntRun(_, _)
NativeIntRun(s, i) ==
    LET q == NativeIntStep(s, i)
    IN  IF q = 0 THEN 0
        ELSE LET r == NativeIntRun(s, q)
             IN  IF r > 0 THEN r ELSE IF AtB(s, q) THEN q ELSE 0

\* the end of a match of \b( *(int|short|long|byte|char))+\b at i, or 0
NativeIntEnd(s, i) == IF AtB(s, i) THEN NativeIntRun(s, i) ELSE 0

\* re.sub(r"^word\b", "", s)
StripLeadingWord(s, w) ==
    IF StartsWith(s, w) /\ AtB(s, Len(w) + 1) THEN Drop(s, Len(w) + 1) ELSE s

\* the rewrites of simple_parse, lines 559-583, in the order they apply:
\* a regular expression (kind "charptr", "sizedint", "nativeint"), \b(w1|w2|...)\b
\* for the words given ("words"), ^w\b ("leading"), str.replace and str.strip
Rewrites == <<
    \* line 559: \b(const +)?char +\*
    [kind |-> "charptr", words |-> <<>>, repl |-> <<"s","t","r">>],
    \* lines 560-561
    [kind |-> "replace", words |-> << <<":",":">> >>, repl |-> <<".">>],
    [kind |-> "replace", words |-> << <<"<">> >>, repl |-> <<"[">>],
    [kind |-> "replace", words |-> << <<">">> >>, repl |-> <<"]">>],
    [kind |-> "replace", words |-> << <<"&">> >>, repl |-> <<>>],
    [kind |-> "replace", words |-> << <<"*">> >>, repl |-> <<>>],
    [kind |-> "replace", words |-> << <<".",".",".">> >>, repl |-> <<>>],
    [kind |-> "strip", words |-> <<>>, repl |-> <<>>],
    \* line 562: \bconst(expr)?\b
    [kind |-> "words", words |-> << <<"c","o","n","s","t","e","x","p","r">>, <<"c","o","n","s","t">> >>, repl |-> <<>>],
    \* line 563
    [kind |-> "words", words |-> << <<"v","o","l","a","t","i","l","e">> >>, repl |-> <<>>],
    \* line 565
    [kind |-> "words", words |-> << <<"v","o","i","d">> >>, repl |-> <<"N","o","n","e">>],
    \* line 566: \bu?int[0-9]+(_t)?\b
    [kind |-> "sizedint", words |-> <<>>, repl |-> <<"i","n","t">>],
    \* line 567
    [kind |-> "words", words |-> << <<"u","n","s","i","g","n","e","d">> >>, repl |-> <<>>],
    \* line 568: \b( *(int|short|long|byte|char))+\b
    [kind |-> "nativeint", words |-> <<>>, repl |-> <<" ","i","n","t">>],
    \* line 569
    [kind |-> "words", words |-> << <<"d","o","u","b","l","e">> >>, repl |-> <<"f","l","o","a","t">>],
    \* line 570: \b(std\.)?string\b
    [kind |-> "words", words |-> << <<"s","t","d",".","s","t","r","i","n","g">>, <<"s","t","r","i","n","g">> >>, repl |-> <<"s","t","r">>],
    \* line 571
    [kind |-> "words", words |-> << <<"s","t","d",".","v","e","c","t","o","r">>, <<"v","e","c","t","o","r">> >>, repl |-> <<"L","i","s","t">>],
    \* line 572
    [kind |-> "words", words |-> << <<"s","t","d",".","p","a","i","r">>, <<"p","a","i","r">> >>, repl |-> <<"T","u","p","l","e">>],
    \* line 573: \b(std\.)?(unordered_)?map\b
    [kind |-> "words", words |-> << <<"s","t","d",".","u","n","o","r","d","e","r","e","d","_","m","a","p">>, <<"s","t","d",".","m","a","p">>, <<"u","n","o","r","d","e","r","e","d","_","m","a","p">>, <<"m","a","p">> >>, repl |-> <<"D","i","c","t">>],
    \* line 575
    [kind |-> "words", words |-> << <<"t","r","u","e">> >>, repl |-> <<"T","r","u","e">>],
    \* line 576
    [kind |-> "words", words |-> << <<"f","a","l","s","e">> >>, repl |-> <<"F","a","l","s","e">>],
    \* line 577
    [kind |-> "words", words |-> << <<"n","u","l","l","p","t","r">> >>, repl |-> <<"N","o","n","e">>],
    \* line 578
    [kind |-> "words", words |-> << <<"N","U","L","L">> >>, repl |-> <<"N","o","n","e">>],
    \* line 580: ^class\b
    [kind |-> "leading", words |-> << <<"c","l","a","s","s">> >>, repl |-> <<>>],
    \* line 581: ^typename\b
    [kind |-> "leading", words |-> << <<"t","y","p","e","n","a","m","e">> >>, repl |-> <<>>],
    \* line 583
    [kind |-> "strip", words |-> <<>>, repl |-> <<>>]
    >>

\* name after one rewrite
Rewrite(s, rule) ==
    CASE rule.kind = "charptr" ->
           Sub(s, [i \in 1..Len(s) |-> ConstCharPtrEnd(s, i)], rule.repl, 1)
      [] rule.kind = "sizedint" ->
           Sub(s, [i \in 1..Len(s) |-> SizedIntEnd(s, i)], rule.repl, 1)
      [] rule.kind = "nativeint" ->
           Sub(s, [i \in 1..Len(s) |-> NativeIntEnd(s, i)], rule.repl, 1)
      [] rule.kind = "words" -> SubWords(s, rule.words, rule.repl)
      [] rule.kind = "leading" -> StripLeadingWord(s, rule.words[1])
      [] rule.kind = "replace" -> Replace(s, rule.words[1], rule.repl)
      [] rule.kind = "strip" -> Strip(s)

\* name after the rewrites lo..hi, one after the other: the first half of
\* them, then the second half on what the first half gave; no rewrite makes
\* anything of the empty text
RECURSIVE Rewritten(_, _, _)
Rewritten(s, lo, hi) ==
    IF s = <<>> THEN s
    ELSE IF lo = hi THEN Rewrite(s, Rewrites[lo])
    ELSE Rewritten(Rewritten(s, lo, (lo + hi) \div 2), (lo + hi) \div 2 + 1, hi)

simple_parse(orig_name) ==
    IF orig_name = <<>> THEN <<>> ELSE Rewritten(orig_name, 1, Len(Rewrites))
---------------------------------------------------------------------------
(* ast.parse, on the shapes of text the entity classes render.             *)
(*                                                                         *)
(* Every __str__ fills a fixed frame (def, class, annotated assignment,    *)
(* ...) with texts taken from the entity's fields.  A rendering is kept as *)
(* the frame with the texts of its holes, and parsing decides, character   *)
(* by character, whether each hole holds what the grammar asks for there.  *)
(* Expressions are the operator-free ones: names, string and number         *)
(* literals, the ellipsis, attribute access, subscripts, calls, lists and  *)
(* parenthesised forms.                                                    *)

Keywords == {
    <<"F","a","l","s","e">>, <<"N","o","n","e">>, <<"T","r","u","e">>,
    <<"a","n","d">>, <<"a","s">>, <<"a","s","s","e","r","t">>,
    <<"a","s","y","n","c">>, <<"a","w","a","i","t">>,
    <<"b","r","e","a","k">>, <<"c","l","a","s","s">>,
    <<"c","o","n","t","i","n","u","e">>, <<"d","e","f">>, <<"d","e","l">>,
    <<"e","l","i","f">>, <<"e","l","s","e">>, <<"e","x","c","e","p","t">>,
    <<"f","i","n","a","l","l","y">>, <<"f","o","r">>, <<"f","r","o","m">>,
    <<"g","l","o","b","a","l">>, <<"i","f">>, <<"i","m","p","o","r","t">>,
    <<"i","n">>, <<"i","s">>, <<"l","a","m","b","d","a">>,
    <<"n","o","n","l","o","c","a","l">>, <<"n","o","t">>, <<"o","r">>,
    <<"p","a","s","s">>, <<"r","a","i","s","e">>,
    <<"r","e","t","u","r","n">>, <<"t","r","y">>, <<"w","h","i","l","e">>,
    <<"w","i","t","h">>, <<"y","i","e","l","d">>
    }

\* keywords that are expressions on their own
ConstantKeywords == { <<"N","o","n","e">>, <<"T","r","u","e">>, <<"F","a","l","s","e">> }

\* keywords that are a statement on their own
BareStatements == { <<"p","a","s","s">>, <<"b","r","e","a","k">>, <<"c","o","n","t","i","n","u","e">>, <<"r","e","t","u","r","n">>, <<"r","a","i","s","e">> }

NameStart == Letters \cup {"_"}

\* the offset after the identifier that starts at i, or 0
NameEnd(s, i) == IF i <= Len(s) /\ s[i] \in NameStart THEN Skip(s, i, WordChars) ELSE 0

IsIdentifier(s) == s # <<>> /\ NameEnd(s, 1) = Len(s) + 1 /\ s \notin Keywords

\* the first offset >= i whose character is in cs (Len(s)+1 if none)
SkipTo(s, i, cs) ==
    IF \E j \in i..Len(s) : s[j] \in cs
    THEN Min({j \in i..Len(s) : s[j] \in cs})
    ELSE IF i > Len(s) THEN i ELSE Len(s) + 1

\* the offset after the string literal that starts at i with the quote s[i], or 0
StringEnd(s, i) ==
    LET k == SkipTo(s, i + 1, {s[i], "\\", "\n"})
    IN  IF k <= Len(s) /\ s[k] = s[i] THEN k + 1 ELSE 0

\* the offset after the number literal (12, 1.5, 1., .5) that starts at i, or 0
NumberEnd(s, i) ==
    LET k == Skip(s, i, Digits)
        e == IF k <= Len(s) /\ s[k] = "." THEN Skip(s, k + 1, Digits) ELSE k
    IN  IF e = i + 1 /\ s[i] = "." THEN 0
        ELSE IF e <= Len(s) /\ s[e] \in WordChars THEN 0
        ELSE e

InlineSpace == {" ", "\t"}

RECURSIVE ExprEnd(_, _), TrailersEnd(_, _), ItemsEnd(_, _, _, _)

\* the offset after the atom that starts at i, or 0
AtomEnd(s, i) ==
    IF i > Len(s) THEN 0
    ELSE IF s[i] \in NameStart
         THEN LET e == NameEnd(s, i)
              IN  IF SubSeq(s, i, e - 1) \in Keywords \ ConstantKeywords THEN 0 ELSE e
    ELSE IF s[i] \in {"\"", "'"} THEN StringEnd(s, i)
    ELSE IF MatchAt(s, i, <<".",".",".">>) THEN i + 3
    ELSE IF s[i] \in Digits \cup {"."} THEN NumberEnd(s, i)
    ELSE IF s[i] \in {"[", "("}
         THEN ItemsEnd(s, i + 1, IF s[i] = "[" THEN "]" ELSE ")", TRUE)
    ELSE 0

\* the offset after the expression that starts at i (leading blanks skipped), or 0
ExprEnd(s, i) ==
    LET Trailers(a) == IF a = 0 THEN 0 ELSE TrailersEnd(s, a)
    IN  Trailers(AtomEnd(s, Skip(s, i, InlineSpace)))

\* the offset after the attribute, subscript and call trailers that start at i
TrailersEnd(s, i) ==
    LET j == Skip(s, i, InlineSpace)
        k == Skip(s, j + 1, InlineSpace)
        More(e) == IF e = 0 THEN 0 ELSE TrailersEnd(s, e)
    IN  IF j > Len(s) \/ s[j] \notin {".", "[", "("} THEN i
        ELSE More(IF s[j] = "."
                  THEN IF SubSeq(s, k, NameEnd(s, k) - 1) \in Keywords THEN 0
                       ELSE NameEnd(s, k)
                  ELSE ItemsEnd(s, j + 1, IF s[j] = "[" THEN "]" ELSE ")", s[j] = "("))

\* the offset after "expr, expr, ... close" that starts at i, or 0
ItemsEnd(s, i, close, mayClose) ==
    LET j == Skip(s, i, InlineSpace)
        Rest(e) ==
            IF e = 0 \/ Skip(s, e, InlineSpace) > Len(s) THEN 0
            ELSE IF s[Skip(s, e, InlineSpace)] = ","
                 THEN ItemsEnd(s, Skip(s, e, InlineSpace) + 1, close, TRUE)
            ELSE IF s[Skip(s, e, InlineSpace)] = close THEN Skip(s, e, InlineSpace) + 1
            ELSE 0
    IN  IF j > Len(s) THEN 0
        ELSE IF s[j] = close THEN (IF mayClose THEN j + 1 ELSE 0)
        ELSE Rest(ExprEnd(s, j))

\* s is an expression (blanks around it allowed)
IsExpr(s) ==
    LET Whole(e) == e > 0 /\ Skip(s, e, InlineSpace) = Len(s) + 1
    IN  Whole(ExprEnd(s, 1))

\* s.strip(" \t")
StripBlanks(s) ==
    LET Right(t) == SubSeq(t, 1, CHOOSE n \in 0..Len(t) :
                                    /\ n = 0 \/ t[n] \notin InlineSpace
                                    /\ \A k \in (n + 1)..Len(t) : t[k] \in InlineSpace)
    IN  Right(Drop(s, Skip(s, 1, InlineSpace)))

\* s is a name, where the frame allows blanks around it (def NAME (...), class NAME (...))
IsName(s) == IsIdentifier(StripBlanks(s))

\* s can stand left of ":" and of "=" in an assignment that starts a line:
\* a name, an attribute or a subscript, possibly in parentheses
RECURSIVE IsTargetExpr(_)
IsTargetExpr(s) ==
    LET Target(t) ==
            /\ IsExpr(t)
            /\ IF AtomEnd(t, 1) = Len(t) + 1
               THEN \/ t[1] \in NameStart /\ t \notin Keywords
                    \/ t[1] = "(" /\ IsTargetExpr(SubSeq(t, 2, Len(t) - 1))
               ELSE t[Len(t)] # ")"
    IN  Target(StripBlanks(s))

IsTarget(s) == s # <<>> /\ s[1] \notin InlineSpace /\ IsTargetExpr(s)

\* s is a statement on a line of its own: expressions separated by commas, or
\* a keyword that is a statement
IsExprStmt(s) ==
    /\ s # <<>>
    /\ s[1] \notin InlineSpace
    /\ \/ /\ "\n" \notin {s[k] : k \in 1..Len(s)}
          /\ ItemsEnd(s \o <<"\n">>, 1, "\n", FALSE) = Len(s) + 2
       \/ StripBlanks(s) \in BareStatements

---------------------------------------------------------------------------
(* The exported declaration tree (the lxml elements the classes read)      *)
(*                                                                         *)
(* An element is a record of what the code reads from it.  A <type>,       *)
(* <ref> or <basecompoundref> element is                                   *)
(*   [present, refid, text, kids], kids a sequence of [xml, tail];         *)
(* present = FALSE stands for xml.find(...) returning None, refid = <<>>   *)
(* for an element without attributes, text = <<>> for no text.             *)
(* Every element has a <briefdescription> without text, so brief = "".     *)

\* Python's None, where a reference, an id or a text is expected
None == <<>>

NoXml == [present |-> FALSE, refid |-> <<>>, text |-> <<>>, kids |-> <<>>]

---------------------------------------------------------------------------
(* class Type                                                              *)

\* a part of Type.parts: a translated string or a nested Type
StrPart(s) == [isType |-> FALSE, s |-> s]
TypePart(t) == [isType |-> TRUE, t |-> t]

\* the offsets at which w occurs in s
Occurrences(s, w) == {i \in 1..Len(s) : MatchAt(s, i, w)}

Max(S) == CHOOSE x \in S : \A y \in S : x >= y

\* re.match(r"(std\.)?<word> *\[", t): the offset after the "[", or 0
IdiomOpen(t, word) ==
    LET p == IF StartsWith(t, <<"s","t","d",".">>) THEN 5 ELSE 1
        q == Skip(t, p + Len(word), {" "})
    IN  IF MatchAt(t, p, word) /\ q <= Len(t) /\ t[q] = "[" THEN q + 1 ELSE 0

\* the offsets of the "," between the "[" at o - 1 and the last "].type"
\* after it: what the groups of "\[(.*),(.*)\]\.type" can end at
GroupCommas(t, o) ==
    LET ends == {e \in Occurrences(t, <<"]",".","t","y","p","e">>) : e >= o}
    IN  IF o = 0 \/ ends = {} THEN {}
        ELSE {c \in Occurrences(t, <<",">>) : c >= o /\ c < Max(ends)}

\* the text from offset c + 1 to the last "].type"
GroupFrom(t, c) ==
    SubSeq(t, c + 1, Max(Occurrences(t, <<"]",".","t","y","p","e">>)) - 1)

\* Type.__init__, lines 490-492: the override a match of conditional gives, or ""
Type_conditional(t) ==
    LET cc == GroupCommas(t, IdiomOpen(t, <<"c","o","n","d","i","t","i","o","n","a","l">>))
    IN  IF Cardinality(cc) >= 2
        THEN <<"U","n","i","o","n","[">>
             \o simple_parse(SubSeq(t, Max(cc \ {Max(cc)}) + 1, Max(cc) - 1))
             \o <<","," ">> \o simple_parse(GroupFrom(t, Max(cc))) \o <<"]">>
        ELSE <<>>

\* Type.__init__, lines 493-495: the override a match of enable_if gives, or ""
Type_enable_if(t) ==
    LET cc == GroupCommas(t, IdiomOpen(t, <<"e","n","a","b","l","e","_","i","f">>))
    IN  IF cc # {}
        THEN <<"A","n","n","o","t","a","t","e","d","[">> \o GroupFrom(t, Max(cc))
             \o <<",", " ", "\"">> \o Replace(t, <<"\"">>, <<"'">>) \o <<"\"", "]">>
        ELSE <<>>

\* Type.__init__, lines 489-499: the override of the joined parts t
Type_override(t) ==
    IF Contains(t, <<"-">>) \/ Contains(t, <<"@">>) \/ EndsWith(t, <<".">>)
    THEN <<"W","T","F","_","T","Y","P","E","[","\"">> \o Replace(t, <<"\"">>, <<"'">>) \o <<"\"", "]">>
    ELSE IF \/ StartsWith(t, <<"s","t","d",".","f","u","n","c","t","i","o","n">>)
            \/ StartsWith(t, <<"f","u","n","c","t","i","o","n">>)
    THEN <<"C","a","l","l","a","b","l","e">>
    ELSE IF Type_enable_if(t) # <<>> THEN Type_enable_if(t)
    ELSE Type_conditional(t)

\* Type.is_empty
Type_is_empty(self) ==
    IF ~self.xml.present THEN TRUE
    ELSE IF self.xml.refid # <<>> THEN FALSE
    ELSE IF Len(self.xml.kids) > 0 THEN FALSE
    ELSE IF self.xml.text # <<>> /\ Strip(self.xml.text) # <<>> THEN FALSE
    ELSE TRUE

\* Type.__bool__
Type_bool(self) == self.parts # <<>> \/ self.override # <<>> \/ self.target # None

\* bool(p) of a part
PartBool(p) == IF p.isType THEN Type_bool(p.t) ELSE p.s # <<>>

\* [s for s in parts if s]
RECURSIVE Truthy(_)
Truthy(parts) ==
    IF parts = <<>> THEN <<>>
    ELSE (IF PartBool(parts[1]) THEN <<parts[1]>> ELSE <<>>) \o Truthy(Drop(parts, 2))

---------------------------------------------------------------------------
(* Objects and references                                                  *)
(*                                                                         *)
(* The compounds list of __main__ is the sequence units.  An object is     *)
(* referred to by where it lives: <<u>> is units[u], <<u, m>> its member m *)
(* and <<u, m, v>> value v of that member (an Enum).  The attributes an    *)
(* object has are the fields of its record, so hasattr(o, "x") is          *)
(* "x" \in DOMAIN o.                                                       *)

Deref(ref) ==
    IF Len(ref) = 1 THEN units[ref[1]]
    ELSE IF Len(ref) = 2 THEN units[ref[1]].members[ref[2]]
    ELSE units[ref[1]].members[ref[2]].values[ref[3]]

\* ParsedElement.__init__: the attributes it leaves on self
ParsedElement_init(xml, container) ==
    [xml |-> xml, brief |-> <<>>, container |-> None]

\* a registration that keeps the first object only
RegisterFirst(inst, id, self) ==
    IF id # <<>> /\ DOMAIN inst = {} THEN (id :> self) @@ inst
    ELSE inst

\* ParsedElement.__init__, lines 32-34: INSTANCES after the registration of self
Register(inst, id, self) ==
    IF id # <<>> THEN (id :> self) @@ inst
    ELSE inst

\* ParsedElement.qualname (the getter)
RECURSIVE qualname(_)
qualname(self) ==
    IF "qualname" \in DOMAIN self THEN self.qualname
    ELSE IF self.container # None /\ "name" \in DOMAIN self
         THEN qualname(Deref(self.container)) \o <<".">> \o self.name
    ELSE IF "name" \in DOMAIN self /\ self.name # <<>> THEN self.name
    ELSE <<"?","?","?">>

\* Type.__str__
RECURSIVE Type_str(_)
Type_str(self) ==
    IF self.override # <<>> THEN self.override
    ELSE IF self.target # None THEN qualname(Deref(self.target))
    ELSE IF self.parts # <<>>
         THEN Join([k \in 1..Len(self.parts) |->
                      IF self.parts[k].isType THEN Type_str(self.parts[k].t)
                      ELSE self.parts[k].s])
    ELSE <<"A","n","y">>

\* Type.__init__
RECURSIVE Type_init(_, _)
Type_init(xml, container) ==
    IF ~xml.present
    THEN [cls |-> "Type", xml |-> xml, brief |-> None, container |-> None,
          parts |-> <<>>, override |-> <<>>, target |-> None]
    ELSE The({
        [cls |-> "Type", xml |-> xml, brief |-> ParsedElement_init(xml, container).brief,
         container |-> ParsedElement_init(xml, container).container,
         parts |-> parts,
         override |-> Type_override(Join([k \in 1..Len(parts) |->
                          IF parts[k].isType THEN Type_str(parts[k].t) ELSE parts[k].s])),
         target |-> None]
        : parts \in {Truthy(
              <<StrPart(simple_parse(xml.text))>> \o
              Join([k \in 1..Len(xml.kids) |->
                      << TypePart(Type_init(xml.kids[k].xml, None)),
                         StrPart(simple_parse(xml.kids[k].tail)) >>]))} })

\* Type.resolve: self afterwards, with the registries inst and ns
RECURSIVE Type_resolve(_, _, _)
Type_resolve(self, inst, ns) ==
    LET byId == IF self.xml.refid \in DOMAIN inst THEN inst[self.xml.refid] ELSE None
        \* getattr(self.parts[0], "qualname", None): a str has no qualname
        Bound(parts) ==
            [self EXCEPT !.parts = parts,
                         !.target = IF /\ byId = None
                                       /\ parts # <<>> /\ parts[1].isType
                                       /\ qualname(parts[1].t) \in DOMAIN ns
                                    THEN ns[qualname(parts[1].t)]
                                    ELSE byId]
    IN  IF Type_is_empty(self) THEN self
        ELSE Bound(List([k \in 1..Len(self.parts) |->
                           IF self.parts[k].isType
                           THEN TypePart(Type_resolve(self.parts[k].t, inst, ns))
                           ELSE self.parts[k]]))

\* Type.is_resolvable: self afterwards
RECURSIVE Type_is_resolvable(_, _, _)
Type_is_resolvable(self, inst, ns) ==
    LET First(r) ==
            IF r.target # None \/ r.parts = <<>> \/ ~r.parts[1].isType THEN r
            ELSE [r EXCEPT !.parts[1] = TypePart(Type_is_resolvable(r.parts[1].t, inst, ns))]
    IN  First(Type_resolve(self, inst, ns))

\* type_parse
type_parse(orig_name, container) == Type_str(Type_init(orig_name, container))

---------------------------------------------------------------------------
(* Statements and blocks                                                   *)
(*                                                                         *)
(* A rendering is a sequence of lines [ind, text]: ind counts the tabs     *)
(* that "\t..." and textwrap.indent put before the text.  The blank lines  *)
(* that "\n\n".join leaves between the lines mean nothing to the parser.   *)

Line(ind, text) == [ind |-> ind, text |-> text]

\* textwrap.indent(str, "\t")
Indent(doc) == [k \in 1..Len(doc) |-> Line(doc[k].ind + 1, doc[k].text)]

\* the offset after "name [: expr], ... )" that starts at i, or 0
RECURSIVE ParametersEnd(_, _)
ParametersEnd(s, i) ==
    LET j == Skip(s, i, InlineSpace)
        e == NameEnd(s, j)
        k == Skip(s, e, InlineSpace)
        Rest(x) ==
            IF x = 0 \/ Skip(s, x, InlineSpace) > Len(s) THEN 0
            ELSE IF s[Skip(s, x, InlineSpace)] = "," THEN ParametersEnd(s, Skip(s, x, InlineSpace) + 1)
            ELSE IF s[Skip(s, x, InlineSpace)] = ")" THEN Skip(s, x, InlineSpace) + 1
            ELSE 0
    IN  IF j > Len(s) THEN 0
        ELSE IF s[j] = ")" THEN j + 1
        ELSE IF e = 0 \/ SubSeq(s, j, e - 1) \in Keywords THEN 0
        ELSE Rest(IF k <= Len(s) /\ s[k] = ":" THEN ExprEnd(s, k + 1) ELSE k)

\* text is "<word> ..." with the keyword word
IsHeader(s, word) == StartsWith(s, word) /\ AtB(s, Len(word) + 1)

\* s ends with ":" at offset x, blanks aside
IsColonAt(s, x) ==
    /\ x > 0
    /\ Skip(s, x, InlineSpace) <= Len(s)
    /\ s[Skip(s, x, InlineSpace)] = ":"
    /\ Skip(s, Skip(s, x, InlineSpace) + 1, InlineSpace) = Len(s) + 1

\* "def NAME(parameters) [-> expr]:"
DefHeaderOK(s) ==
    LET n == Skip(s, 4, InlineSpace)
        e == NameEnd(s, n)
        q == Skip(s, e, InlineSpace)
        Returns(p) ==
            /\ p > 0
            /\ IsColonAt(s, IF MatchAt(s, Skip(s, p, InlineSpace), <<"-",">">>)
                            THEN ExprEnd(s, Skip(s, p, InlineSpace) + 2)
                            ELSE Skip(s, p, InlineSpace))
    IN  /\ e > 0 /\ SubSeq(s, n, e - 1) \notin Keywords
        /\ q <= Len(s) /\ s[q] = "("
        /\ Returns(ParametersEnd(s, q + 1))

\* "class NAME[(expr, ...)]:"
ClassHeaderOK(s) ==
    LET n == Skip(s, 6, InlineSpace)
        e == NameEnd(s, n)
        q == Skip(s, e, InlineSpace)
    IN  /\ e > 0 /\ SubSeq(s, n, e - 1) \notin Keywords
        /\ IsColonAt(s, IF q <= Len(s) /\ s[q] = "(" THEN ItemsEnd(s, q + 1, ")", TRUE) ELSE q)

\* a statement on one line: expressions, an assignment, an annotated assignment
SimpleStmtOK(s) ==
    LET \* the statement is "target <op> value" with the value from offset from
        \* on, or all of it is the value (from = 1), or it has no value (from = 0)
        Stmt(target, from) ==
            /\ from >= 0
            /\ from = 1 \/ IsTarget(target)
            /\ from = 0 \/ IsExprStmt(Drop(s, from))
        Annotated(x) ==
            IF x = 0 THEN -1
            ELSE IF Skip(s, x, InlineSpace) = Len(s) + 1 THEN 0
            ELSE IF s[Skip(s, x, InlineSpace)] = "="
                 THEN Skip(s, Skip(s, x, InlineSpace) + 1, InlineSpace)
            ELSE -1
        First(e) ==
            Stmt(SubSeq(s, 1, e - 1),
                 IF e = 0 \/ Skip(s, e, InlineSpace) > Len(s) \/ s[Skip(s, e, InlineSpace)] = "," THEN 1
                 ELSE IF s[Skip(s, e, InlineSpace)] = "=" THEN Skip(s, Skip(s, e, InlineSpace) + 1, InlineSpace)
                 ELSE IF s[Skip(s, e, InlineSpace)] = ":" THEN Annotated(ExprEnd(s, Skip(s, e, InlineSpace) + 1))
                 ELSE -1)
    IN  s # <<>> /\ s[1] \notin InlineSpace /\ First(ExprEnd(s, 1))

\* a line the tokenizer drops: blank, or a comment
IsBlank(s) == Skip(s, 1, InlineSpace) = Len(s) + 1 \/ s[Skip(s, 1, InlineSpace)] = "#"
IsDecorator(s) == s # <<>> /\ s[1] = "@"
IsCompound(s) == IsHeader(s, <<"d","e","f">>) \/ IsHeader(s, <<"c","l","a","s","s">>)

\* the lines that are statements
CodeLines(doc) == SelectSeq(doc, LAMBDA line : ~IsBlank(line.text))

\* the index of the line after the block of statements that starts at line k
\* with indentation d, or 0 if the block does not parse
RECURSIVE BlockEnd(_, _, _)
BlockEnd(doc, k, d) ==
    IF k > Len(doc) \/ doc[k].ind < d THEN k
    ELSE IF doc[k].ind > d THEN 0
    ELSE LET s == doc[k].text IN
         IF IsDecorator(s)
         THEN IF /\ IsExpr(Drop(s, 2))
                 /\ k < Len(doc) /\ doc[k + 1].ind = d
                 /\ IsCompound(doc[k + 1].text) \/ IsDecorator(doc[k + 1].text)
              THEN BlockEnd(doc, k + 1, d) ELSE 0
         ELSE IF IsCompound(s)
              THEN LET body == IF k < Len(doc) /\ doc[k + 1].ind > d
                               THEN BlockEnd(doc, k + 1, doc[k + 1].ind) ELSE 0
                   IN  IF /\ IF IsHeader(s, <<"d","e","f">>) THEN DefHeaderOK(s) ELSE ClassHeaderOK(s)
                          /\ body > 0
                       THEN BlockEnd(doc, body, d) ELSE 0
         ELSE IF SimpleStmtOK(s) THEN BlockEnd(doc, k + 1, d)
         ELSE 0

\* ast.parse(val) returns: the lines parse as a module
Parses(doc) == BlockEnd(CodeLines(doc), 1, 0) = Len(CodeLines(doc)) + 1

---------------------------------------------------------------------------
(* The entity classes: Param, Template, Function, Variable, Enum           *)
(*                                                                         *)
(* A constructor is split where the code calls self.check(): X_fields is   *)
(* the object as the statements before the call leave it, X_init the       *)
(* object after check(), or the fact that an exception left the            *)
(* constructor ([raised |-> TRUE, ...]).                                   *)
(* The elements read here: a <param> is [declname, type], a template       *)
(* <param> [declname, text], a <memberdef> [kind, prot, id, name, type,    *)
(* params, templ, strong, values], an <enumvalue> [id, name]; a declname   *)
(* of <<>> is a missing <declname>.  No <param> has a <defval>.            *)

Ok(self) == [raised |-> FALSE, self |-> self]
Raised(self) == [raised |-> TRUE, self |-> self]

\* str(p) of a field that holds a str or a Type
PartStr(p) == IF p.isType THEN Type_str(p.t) ELSE p.s

\* Param.__str__ (default is None)
Param_str(self) ==
    IF Type_bool(self.type) THEN self.name \o <<" ",":"," ">> \o Type_str(self.type)
    ELSE self.name

\* Template.__str__
Template_str(self) ==
    IF self.ignore THEN <<"#"," ">> \o self.name
    ELSE self.name \o <<" ","="," ","T","y","p","e","V","a","r","(","'">> \o self.name \o <<"'",")">>

\* ", ".join(texts)
RECURSIVE JoinComma(_)
JoinComma(ss) ==
    IF ss = <<>> THEN <<>>
    ELSE IF Len(ss) = 1 THEN ss[1]
    ELSE ss[1] \o <<","," ">> \o JoinComma(Drop(ss, 2))

\* a rendering that leaves the return type to Type.__str__
Function_strAny(self) ==
    (IF self.overloaded THEN <<Line(0, <<"@","o","v","e","r","l","o","a","d">>)>> ELSE <<>>) \o
    << Line(0, <<"d","e","f"," ">> \o self.name \o <<"(">>
                \o JoinComma(<<<<"s","e","l","f">>>> \o [k \in 1..Len(self.params) |->
                                              Param_str(self.params[k])])
                \o <<")"," ","-",">"," ">>
                \o Type_str(self.returnt)
                \o <<":">>),
       Line(1, <<".",".",".">>) >>

\* Function.__str__ (brief is "")
Function_str(self) ==
    (IF self.overloaded THEN <<Line(0, <<"@","o","v","e","r","l","o","a","d">>)>> ELSE <<>>) \o
    << Line(0, <<"d","e","f"," ">> \o self.name \o <<"(">>
                \o JoinComma(<<<<"s","e","l","f">>>> \o [k \in 1..Len(self.params) |->
                                              Param_str(self.params[k])])
                \o <<")"," ","-",">"," ">>
                \o (IF Type_bool(self.returnt) THEN Type_str(self.returnt) ELSE <<"N","o","n","e">>)
                \o <<":">>),
       Line(1, <<".",".",".">>) >>

\* Variable.__str__ (brief is "")
Variable_str(self) ==
    IF PartBool(self.type)
    THEN <<Line(0, self.name \o <<" ",":"," ">> \o PartStr(self.type) \o <<" ","="," ">> \o PartStr(self.value))>>
    ELSE <<Line(0, self.name \o <<" ","="," ">> \o PartStr(self.value))>>

\* Enum.__str__ (brief is "")
Enum_str(self) ==
    << Line(0, <<"c","l","a","s","s"," ">> \o self.name \o <<"(">>
                \o (IF self.strong THEN <<"e","n","u","m",".","E","n","u","m">> ELSE <<"e","n","u","m",".","I","n","t","E","n","u","m">>) \o <<")",":">>) >>
    \o Join([k \in 1..Len(self.values) |-> Indent(Variable_str(self.values[k]))])
    \o (IF self.values = <<>> THEN <<Line(1, <<".",".",".">>)>> ELSE <<>>)

---------------------------------------------------------------------------
(* The repair strategies                                                   *)

\* the table of Function.fix1: operator<key> is renamed to __<value>__
renames == <<
    << <<"+">>, <<"a","d","d">> >>,
    << <<"-">>, <<"s","u","b">> >>,
    << <<"*">>, <<"m","u","l">> >>,
    << <<"+","+">>, <<"p","r","e","i","n","c">> >>,
    << <<"-","-">>, <<"p","r","e","d","e","c">> >>,
    << <<"[","]">>, <<"g","e","t","i","t","e","m">> >>,
    << <<"(",")">>, <<"c","a","l","l">> >>,
    << <<"%">>, <<"m","o","d">> >>,
    << <<"*","*">>, <<"p","o","w">> >>,
    << <<"<","<">>, <<"l","s","h","i","f","t">> >>,
    << <<">",">">>, <<"r","s","h","i","f","t">> >>,
    << <<"&">>, <<"a","n","d">> >>,
    << <<"&","&">>, <<"d","a","n","d">> >>,
    << <<"|">>, <<"o","r">> >>,
    << <<"|","|">>, <<"d","o","r">> >>,
    << <<"^">>, <<"x","o","r">> >>,
    << <<"~">>, <<"i","n","v","e","r","t">> >>,
    << <<",">>, <<"c","o","m","m","a">> >>,
    << <<"+","=">>, <<"i","a","d","d">> >>,
    << <<"-","=">>, <<"i","s","u","b">> >>,
    << <<"*","=">>, <<"i","m","u","l">> >>,
    << <<"/","=">>, <<"i","d","i","v">> >>,
    << <<"%","=">>, <<"i","m","o","d">> >>,
    << <<"*","*","=">>, <<"i","p","o","w">> >>,
    << <<"<","<","=">>, <<"i","l","s","h","i","f","t">> >>,
    << <<">",">","=">>, <<"i","r","s","h","i","f","t">> >>,
    << <<"&","=">>, <<"i","a","n","d">> >>,
    << <<"|","=">>, <<"i","o","r">> >>,
    << <<"^","=">>, <<"i","x","o","r">> >>,
    << <<"=","=">>, <<"e","q">> >>,
    << <<"!","=">>, <<"n","e">> >>,
    << <<">">>, <<"g","t">> >>,
    << <<"<">>, <<"l","t">> >>,
    << <<">","=">>, <<"g","e">> >>,
    << <<"<","=">>, <<"l","e">> >>,
    << <<"-",">">>, <<"f","o","l","l","o","w">> >>,
    << <<"=">>, <<"a","s","s","i","g","n">> >>
    >>

Operator(sym) == <<"o","p","e","r","a","t","o","r">> \o sym

\* renames.get(name, name)
Renamed(name) ==
    LET hit == {k \in 1..Len(renames) : name = Operator(renames[k][1])}
    IN  IF hit = {} THEN name
        ELSE <<"_","_">> \o renames[CHOOSE k \in hit : TRUE][2] \o <<"_","_">>

\* Function.fix1
Function_fix1(self) ==
    LET noParams == Len(self.params) = 0
        \* len(self.params) == 1 and self.params[0].type == "int", by ParsedElement.__eq__
        oneInt == Len(self.params) = 1 /\ Type_str(self.params[1].type) = <<"i","n","t">>
        \* if self.name == "operator<sym>" and <cond>: self.name = to
        Unary(name, sym, cond, to) == IF name = Operator(sym) /\ cond THEN to ELSE name
    IN  [self EXCEPT !.name =
            Renamed(Unary(Unary(Unary(Unary(Unary(self.name,
                <<"+">>, noParams, <<"_","_","p","o","s","_","_">>),
                <<"-">>, noParams, <<"_","_","n","e","g","_","_">>),
                <<"*">>, noParams, <<"_","_","d","e","r","e","f","_","_">>),
                <<"+","+">>, oneInt, <<"_","_","p","o","s","t","i","n","c","_","_">>),
                <<"-","-">>, oneInt, <<"_","_","p","o","s","t","d","e","c","_","_">>))]

\* Function.fix2
Function_fix2(self) ==
    LET sp == SkipTo(self.name, 1, {" "})
        op == SubSeq(self.name, 1, sp - 1)
        tp == Drop(self.name, sp + 1)
    IN  IF op = <<"o","p","e","r","a","t","o","r">> /\ tp # <<>>
        THEN [self EXCEPT !.name = <<"_","_">> \o simple_parse(tp) \o <<"_","_">>]
        ELSE self

\* Function.fix3
Function_fix3(self) ==
    IF StartsWith(self.name, <<"~">>) THEN [self EXCEPT !.name = <<"_","_","d","e","s","t","r","u","c","t","_","_">>] ELSE self

\* Function.fix4, Param.fix1, Template.fix1, Variable.fix1, Variable.fix3
PrefixName(self) == [self EXCEPT !.name = <<"_">> \o self.name]

\* Function.fix5, Variable.fix2
LettersOfTail(self) == [self EXCEPT !.name = OnlyLetters(Drop(self.name, 2))]

\* the number of strategies fix1..fixN a class defines
NumFixes(cls) ==
    CASE cls = "Param" -> 1
      [] cls = "Template" -> 1
      [] cls = "Function" -> 5
      [] cls = "Variable" -> 3
      [] OTHER -> 0

\* a class that answers to one strategy more than it defines
HasOneMoreFix(self, i) == i <= NumFixes(self.cls) + 1

\* hasattr(self, "fix%s" % i)
HasFix(self, i) == i <= NumFixes(self.cls)

\* getattr(self, "fix%s" % i)()
Fix(self, i) ==
    CASE self.cls = "Function" /\ i = 1 -> Function_fix1(self)
      [] self.cls = "Function" /\ i = 2 -> Function_fix2(self)
      [] self.cls = "Function" /\ i = 3 -> Function_fix3(self)
      [] self.cls = "Function" /\ i = 4 -> PrefixName(self)
      [] self.cls = "Function" /\ i = 5 -> LettersOfTail(self)
      [] self.cls = "Variable" /\ i = 2 -> LettersOfTail(self)
      [] OTHER -> PrefixName(self)

---------------------------------------------------------------------------
(* class Class: rendering                                                  *)
(*                                                                         *)
(* The compounds modelled have no <innerclass> and no <header> children,   *)
(* so subtypes is empty and every member is a Function, Variable or Enum.  *)

MemberStr(m) ==
    CASE m.cls = "Function" -> Function_str(m)
      [] m.cls = "Variable" -> Variable_str(m)
      [] m.cls = "Enum" -> Enum_str(m)

\* repr(name) of a str without quotes and backslashes
Repr(name) == <<"'">> \o name \o <<"'">>

\* Class.__str__ (brief is "", subtypes is empty).  The templates are a set
\* of objects hashed by their text: they are rendered in the order they
\* entered the set, one statement each, and whether the text parses does not
\* depend on that order
Class_str(self) ==
    LET isNs == self.kind = "namespace"
        Header(bases) ==
            Line(0, <<"c","l","a","s","s"," ">> \o self.name \o <<"(">>
                    \o (IF bases # <<>> THEN JoinComma(bases) ELSE <<"o","b","j","e","c","t">>)
                    \o <<")",":">>)
        Body(doc) == IF isNs THEN doc ELSE Indent(doc)
    IN  <<Line(0, <<"_","_","a","l","l","_","_"," ","="," ","[">>
                  \o JoinComma(IF isNs
                               THEN [k \in 1..Len(self.namespace) |-> Repr(self.namespace[k].name)]
                               ELSE <<Repr(self.name)>>)
                  \o <<"]">>)>>
        \o (IF isNs THEN <<>>
            ELSE [k \in 1..Len(self.templates) |-> Line(0, Template_str(self.templates[k]))]
                 \o <<Header([k \in 1..Len(self.bases) |-> Type_str(self.bases[k])]
                             \o (IF self.generic # <<>>
                                 THEN <<<<"G","e","n","e","r","i","c","[">>
                                        \o JoinComma([k \in 1..Len(self.generic) |-> self.generic[k].name])
                                        \o <<"]">>>>
                                 ELSE <<>>))>>)
        \o Body(Join([k \in 1..Len(self.members) |-> MemberStr(self.members[k])]))
        \o (IF self.members = <<>> THEN <<Line(IF isNs THEN 0 ELSE 1, <<".",".",".">>)>> ELSE <<>>)

\* str(self)
str(self) ==
    CASE self.cls = "Param" -> <<Line(0, Param_str(self))>>
      [] self.cls = "Template" -> <<Line(0, Template_str(self))>>
      [] self.cls = "Class" -> Class_str(self)
      [] OTHER -> MemberStr(self)

---------------------------------------------------------------------------
(* ParsedElement.check                                                     *)

\* a loop that leaves by break where the code raises
CheckStepSilent(self, i) ==
    IF Parses(str(self)) \/ ~HasFix(self, i) THEN "break" ELSE "fix"

\* what iteration i of the loop of check() does: "break" after a rendering
\* that parses, else "fix" if the class has fix<i>, else "raise"
CheckStep(self, i) ==
    IF Parses(str(self)) THEN "break"
    ELSE IF HasFix(self, i) THEN "fix"
    ELSE "raise"

\* check(), from iteration i on
RECURSIVE check_from(_, _)
check_from(self, i) ==
    The({ CASE step = "break" -> Ok(self)
            [] step = "fix" -> check_from(Fix(self, i), i + 1)
            [] step = "raise" -> Raised(self)
          : step \in {CheckStep(self, i)} })

check(self) == check_from(self, 1)

---------------------------------------------------------------------------
(* The constructors                                                        *)

\* the objects of a sequence of constructor results, and whether one raised
Selves(rs) == List([k \in 1..Len(rs) |-> rs[k].self])
AnyRaised(rs) == \E k \in 1..Len(rs) : rs[k].raised

\* Param.__init__ up to self.check()
Param_fields(xml, container) ==
    LET base == ParsedElement_init(xml, container)
    IN  [cls |-> "Param", xml |-> base.xml, brief |-> base.brief,
         container |-> base.container,
         name |-> IF xml.declname # None THEN xml.declname ELSE <<"_">>,
         type |-> Type_init(xml.type, container),
         default |-> None]

Param_init(xml, container) == check(Param_fields(xml, container))

\* Template.__init__ up to self.check()
Template_fields(xml, container) ==
    LET base == ParsedElement_init(xml, container)
        full == Strip(xml.text)
        sp   == SkipTo(full, 1, {" "})
        pre  == SubSeq(full, 1, sp - 1)
        suf  == Drop(full, sp + 1)
        name == IF xml.declname # None THEN xml.declname
                ELSE IF pre \in {<<"c","l","a","s","s">>, <<"t","y","p","e","n","a","m","e">>} THEN suf
                ELSE xml.text
    IN  [cls |-> "Template", xml |-> base.xml, brief |-> base.brief,
         container |-> base.container,
         name |-> Strip(name),
         ignore |-> Contains(Strip(name), <<"e","n","a","b","l","e","_","i","f">>)]

Template_init(xml, container) == check(Template_fields(xml, container))

\* Function.__init__ up to self.check(); raised if a Param or Template raised
Function_fields(xml, container) ==
    The({ [raised |-> AnyRaised(params) \/ AnyRaised(templ),
           self |-> [cls |-> "Function", xml |-> xml,
                     brief |-> ParsedElement_init(xml, container).brief,
                     container |-> ParsedElement_init(xml, container).container,
                     name |-> xml.name,
                     returnt |-> Type_init(xml.type, container),
                     params |-> Selves(params),
                     templ |-> Selves(templ),
                     overloaded |-> FALSE]]
          : params \in {List([k \in 1..Len(xml.params) |-> Param_init(xml.params[k], container)])},
            templ \in {List([k \in 1..Len(xml.templ) |-> Template_init(xml.templ[k], container)])} })

Function_init(xml, container) ==
    The({ IF f.raised THEN f ELSE check(f.self) : f \in {Function_fields(xml, container)} })

\* Variable.__init__ up to self.check(); type and value hold a Type or a str
Variable_fields(xml, container) ==
    LET base == ParsedElement_init(xml, container)
    IN  [cls |-> "Variable", xml |-> base.xml, brief |-> base.brief,
         container |-> base.container,
         name |-> xml.name,
         type |-> TypePart(Type_init(xml.type, container)),
         value |-> StrPart(<<".",".",".">>)]

Variable_init(xml, container) == check(Variable_fields(xml, container))

\* Enum.__init__, lines 321-323: the Variable of an <enumvalue>
EnumValue_init(ev, self) ==
    The({ IF v.raised THEN v
          ELSE Ok([v.self EXCEPT !.value = StrPart(<<"e","n","u","m",".","a","u","t","o","(",")">>)])
          : v \in {Variable_init(ev, self)} })

\* Enum.__init__ up to self.check(); self is the reference to the new object.
\* A <memberdef> has no <compoundname>, so xml.find("compoundname") is None
Enum_fields(xml, container, self) ==
    The({ [raised |-> AnyRaised(values),
           self |-> [cls |-> "Enum", xml |-> xml,
                     brief |-> ParsedElement_init(xml, container).brief,
                     container |-> ParsedElement_init(xml, container).container,
                     qualname |-> type_parse(NoXml, container),
                     name |-> Strip(xml.name),
                     strong |-> xml.strong,
                     values |-> Selves(values)]]
          : values \in {List([k \in 1..Len(xml.values) |-> EnumValue_init(xml.values[k], self)])} })

Enum_init(xml, container, self) ==
    The({ IF e.raised THEN e ELSE check(e.self) : e \in {Enum_fields(xml, container, self)} })

\* Class.do_iter, lines 405-412: the Variable of a typedef
Typedef_init(xml, container) ==
    The({ IF v.raised THEN v
          ELSE Ok([v.self EXCEPT !.value = v.self.type,
                                 !.type = StrPart(<<"T","y","p","e","A","l","i","a","s">>)])
          : v \in {Variable_init(xml, container)} })

\* Class.do_iter: the <memberdef>s that yield a member
Yields(md) ==
    md.prot # "private" /\ md.kind \in {"variable", "function", "typedef", "enum"}

\* Class.do_iter, the <memberdef> branch; self is the reference to the member
Member_init(md, container, self) ==
    CASE md.kind = "variable" -> Variable_init(md, container)
      [] md.kind = "function" -> Function_init(md, container)
      [] md.kind = "typedef" -> Typedef_init(md, container)
      [] md.kind = "enum" -> Enum_init(md, container, self)

\* Class.do_iter over the <memberdef>s mds of the <sectiondef>s in document
\* order, n members yielded before: the constructor results of the rest
RECURSIVE do_iter(_, _, _)
do_iter(mds, container, n) ==
    IF mds = <<>> THEN <<>>
    ELSE IF ~Yields(mds[1]) THEN do_iter(Tail(mds), container, n)
    ELSE <<Member_init(mds[1], container, container \o <<n + 1>>)>>
         \o do_iter(Tail(mds), container, n + 1)

\* Class.do_iter, line 411: the Templates of the typedefs
RECURSIVE TypedefTemplates(_, _)
TypedefTemplates(mds, container) ==
    IF mds = <<>> THEN <<>>
    ELSE (IF Yields(mds[1]) /\ mds[1].kind = "typedef"
          THEN [k \in 1..Len(mds[1].templ) |-> Template_init(mds[1].templ[k], container)]
          ELSE <<>>)
         \o TypedefTemplates(Tail(mds), container)

\* qualname.split(".")[-1]
LastComponent(s) ==
    LET dots == {k \in 1..Len(s) : s[k] = "."}
    IN  IF dots = {} THEN s ELSE Drop(s, Max(dots) + 1)

\* the keys of a dict filled in the order of ss
RECURSIVE Keys(_)
Keys(ss) ==
    LET Add(r, x) == IF \E k \in 1..Len(r) : r[k] = x THEN r ELSE Append(r, x)
    IN  IF ss = <<>> THEN <<>>
        ELSE Add(Keys(SubSeq(ss, 1, Len(ss) - 1)), ss[Len(ss)])

\* the elements of a set of Templates filled in the order of ts (equal by str)
RECURSIVE TemplateSet(_)
TemplateSet(ts) ==
    LET Add(r, x) ==
            IF \E k \in 1..Len(r) : Template_str(r[k]) = Template_str(x) THEN r
            ELSE Append(r, x)
    IN  IF ts = <<>> THEN <<>>
        ELSE Add(TemplateSet(SubSeq(ts, 1, Len(ts) - 1)), ts[Len(ts)])

\* setattr(obj, attr, value)
SetAttr(obj, attr, value) ==
    (attr :> value) @@ obj

\* Class.__init__, lines 363-367: the constructor is renamed
Renamed_init(m, name) ==
    IF "templ" \in DOMAIN m /\ m.name = name THEN [m EXCEPT !.name = <<"_","_","i","n","i","t","_","_">>] ELSE m

\* Class.__init__, lines 361-369: namespace, a dict from name to list, as the
\* keys in the order they entered with the indices of the members under each
Class_namespace(members) ==
    The({ List([k \in 1..Len(keys) |->
                  [name |-> keys[k],
                   members |-> {j \in 1..Len(members) : members[j].name = keys[k]}]])
          : keys \in {Keys([k \in 1..Len(members) |-> members[k].name])} })

\* the marking of lines 373-376 that leaves out the first member of each list
MarkLaterOnes(members, namespace) ==
    List([k \in 1..Len(members) |->
            IF \E n \in 1..Len(namespace) :
                  k \in namespace[n].members /\ k # Min(namespace[n].members)
            THEN SetAttr(members[k], "overloaded", TRUE)
            ELSE members[k]])

\* Class.__init__, lines 373-376: the members after member.overloaded = True
\* for every member of a list of namespace that holds more than one
MarkOverloaded(members, namespace) ==
    List([k \in 1..Len(members) |->
            IF \E n \in 1..Len(namespace) :
                  k \in namespace[n].members /\ Cardinality(namespace[n].members) > 1
            THEN SetAttr(members[k], "overloaded", TRUE)
            ELSE members[k]])

\* Class.__init__, lines 343-360: the results of the constructors it calls, with
\* the qualified name of line 347
Class_parts(xml, container, self) ==
    The({ [qual    |-> SubSeq(qn, 1, SkipTo(qn, 1, {"["}) - 1),
           generic |-> List([k \in 1..Len(xml.templ) |-> Template_init(xml.templ[k], container)]),
           tdts    |-> TypedefTemplates(xml.members, self),
           made    |-> do_iter(xml.members, self, 0)]
          : qn \in {type_parse(xml.compoundname, container)} })

\* Class.__init__ up to self.check(); self is the reference to the new object
Class_fields(xml, container, self) ==
    The({ The({
        [raised |-> AnyRaised(p.generic) \/ AnyRaised(p.made) \/ AnyRaised(p.tdts),
         self |-> [cls |-> "Class", xml |-> xml,
                   brief |-> ParsedElement_init(xml, container).brief,
                   container |-> ParsedElement_init(xml, container).container,
                   qualname |-> p.qual,
                   name |-> LastComponent(p.qual),
                   bases |-> List([k \in 1..Len(xml.bases) |-> Type_init(xml.bases[k], self)]),
                   kind |-> xml.kind,
                   templates |-> TemplateSet(
                       Selves(p.generic) \o Selves(p.tdts)
                       \o Join([k \in 1..Len(members) |->
                                  IF "templ" \in DOMAIN members[k] THEN members[k].templ
                                  ELSE <<>>])),
                   generic |-> Selves(p.generic),
                   members |-> MarkOverloaded(members, Class_namespace(members)),
                   namespace |-> Class_namespace(members),
                   subtypes |-> <<>>]]
        : members \in {List([k \in 1..Len(p.made) |->
                               Renamed_init(p.made[k].self, LastComponent(p.qual))])} })
        : p \in {Class_parts(xml, container, self)} })

Class_init(xml, container, self) ==
    The({ IF c.raised THEN c ELSE check(c.self) : c \in {Class_fields(xml, container, self)} })

---------------------------------------------------------------------------
(* resolve()                                                               *)

\* a registration that drops the name when it is already bound
BindOnce(ns, key, self) ==
    IF key \in DOMAIN ns THEN [k \in DOMAIN ns \ {key} |-> ns[k]] ELSE (key :> self) @@ ns

\* NAMESPACE[key] = self
Bind(ns, key, self) ==
    (key :> self) @@ ns

\* Param.resolve
Param_resolve(self, inst, ns) == [self EXCEPT !.type = Type_resolve(@, inst, ns)]

\* Function.resolve: the object and NAMESPACE afterwards; ref refers to self
Function_resolve(self, ref, inst, ns) ==
    [self |-> [self EXCEPT !.returnt = Type_resolve(@, inst, ns),
                           !.params = List([k \in 1..Len(@) |-> Param_resolve(@[k], inst, ns)])],
     ns |-> Bind(ns, qualname(self), ref)]

\* Variable.resolve; a str has no resolve
Variable_resolve(self, ref, inst, ns) ==
    [self |-> IF self.type.isType
              THEN [self EXCEPT !.type = TypePart(Type_resolve(@.t, inst, ns))]
              ELSE self,
     ns |-> Bind(ns, qualname(self), ref)]

\* Enum.resolve
Enum_resolve(self, ref, inst, ns) ==
    [self |-> self, ns |-> Bind(ns, qualname(self), ref)]

\* m.resolve() of a member
Member_resolve(m, ref, inst, ns) ==
    CASE m.cls = "Function" -> Function_resolve(m, ref, inst, ns)
      [] m.cls = "Variable" -> Variable_resolve(m, ref, inst, ns)
      [] m.cls = "Enum" -> Enum_resolve(m, ref, inst, ns)

\* Class.resolve, lines 383-385: the members from the k-th on resolve in turn
RECURSIVE ResolveMembers(_, _, _, _, _)
ResolveMembers(members, k, ref, inst, ns) ==
    LET Rest(r) == ResolveMembers([members EXCEPT ![k] = r.self], k + 1, ref, inst, r.ns)
    IN  IF k > Len(members) THEN [members |-> members, ns |-> ns]
        ELSE Rest(Member_resolve(members[k], ref \o <<k>>, inst, ns))

\* Class.resolve: the object and NAMESPACE afterwards
Class_resolve(self, ref, inst, ns) ==
    LET Done(ms) ==
            [self |-> [self EXCEPT !.bases = List([k \in 1..Len(@) |-> Type_resolve(@[k], inst, ns)]),
                                   !.members = ms.members],
             ns |-> Bind(ms.ns, qualname(self), ref)]
    IN  Done(ResolveMembers(self.members, 1, ref, inst, ns))

\* t.is_resolvable() for the Types of Type.LIST that a member holds
Member_report(m, inst, ns) ==
    CASE m.cls = "Function" ->
           [m EXCEPT !.returnt = Type_is_resolvable(@, inst, ns),
                     !.params = List([k \in 1..Len(@) |->
                                   [@[k] EXCEPT !.type = Type_is_resolvable(@, inst, ns)]])]
      [] m.cls = "Variable" ->
           [m EXCEPT !.type = IF @.isType THEN TypePart(Type_is_resolvable(@.t, inst, ns)) ELSE @,
                     !.value = IF @.isType THEN TypePart(Type_is_resolvable(@.t, inst, ns)) ELSE @]
      [] OTHER -> m

\* line 629: t.is_resolvable() for the Types of Type.LIST that a unit holds
Class_report(self, inst, ns) ==
    [self EXCEPT !.bases = List([k \in 1..Len(@) |-> Type_is_resolvable(@[k], inst, ns)]),
                 !.members = List([k \in 1..Len(@) |-> Member_report(@[k], inst, ns)])]

\* ParsedElement.__init__, lines 32-34, for a unit and what it holds: the ids
\* that Class(compounddef) registered, with the objects they name
Registered(inst, self, ref) ==
    LET ms == self.members
        RECURSIVE Vals(_, _, _, _)
        Vals(r, vs, v, mref) ==
            IF v > Len(vs) THEN r
            ELSE Vals(Register(r, vs[v].xml.id, mref \o <<v>>), vs, v + 1, mref)
        RECURSIVE Mems(_, _)
        Mems(r, k) ==
            IF k > Len(ms) THEN r
            ELSE LET r1 == Register(r, ms[k].xml.id, ref \o <<k>>)
                 IN  Mems(IF ms[k].cls = "Enum" THEN Vals(r1, ms[k].values, 1, ref \o <<k>>)
                          ELSE r1, k + 1)
    IN  Mems(Register(inst, self.xml.id, ref), 1)

---------------------------------------------------------------------------
(* The declaration trees the runs are checked on                           *)

\* <type>text</type>
TextType(text) == [present |-> TRUE, refid |-> <<>>, text |-> text, kids |-> <<>>]

\* <ref refid="id">text</ref>, <basecompoundref refid="id">text</basecompoundref>
RefTo(id, text) == [present |-> TRUE, refid |-> id, text |-> text, kids |-> <<>>]

\* <type><ref refid="id">text</ref></type>
RefType(id, text) ==
    [present |-> TRUE, refid |-> <<>>, text |-> <<>>,
     kids |-> <<[xml |-> RefTo(id, text), tail |-> <<>>]>>]

MemberDef(kind, prot, id, name, type, params, templ) ==
    [kind |-> kind, prot |-> prot, id |-> id, name |-> name, type |-> type,
     params |-> params, templ |-> templ, strong |-> FALSE, values |-> <<>>]

EnumValue(id, name) == [id |-> id, name |-> name, type |-> NoXml]

\* the compounds: a class, a struct in a namespace whose name is a word of the
\* target language, and the namespace ogdf; peer is the class the members refer to
Owners == <<
    [id |-> <<"G">>, compoundname |-> <<"o","g","d","f",":",":","G">>, local |-> <<"G">>, kind |-> "class",
     bases |-> <<>>, peer |-> <<"H">>, peername |-> <<"H">>],
    [id |-> <<"H">>, compoundname |-> <<"o","g","d","f",":",":","i","n",":",":","H">>, local |-> <<"H">>, kind |-> "struct",
     bases |-> <<RefTo(<<"G">>, <<"o","g","d","f",":",":","G">>)>>, peer |-> <<"G">>, peername |-> <<"G">>],
    [id |-> <<"N">>, compoundname |-> <<"o","g","d","f">>, local |-> <<"o","g","d","f">>, kind |-> "namespace",
     bases |-> <<>>, peer |-> <<"G">>, peername |-> <<"G">>] >>

\* an id that no declaration has
Dangling == <<"Z">>

\* the members that refer to another declaration
PeerMembers(o) == <<
    MemberDef("variable", "public", o.id \o <<"x">>, <<"x">>, RefType(o.peer, o.peername), <<>>, <<>>),
    MemberDef("function", "public", o.id \o <<"f2">>, <<"f">>, TextType(<<"v","o","i","d">>),
              <<[declname |-> <<"a">>, type |-> RefType(o.peer, o.peername)]>>, <<>>),
    MemberDef("typedef", "public", o.id \o <<"T">>, <<"T">>, RefType(o.peer, o.peername), <<>>, <<>>) >>

\* the members a compound is built from
Members(o) == PeerMembers(o) \o <<
    MemberDef("function", "public", o.id \o <<"f1">>, <<"f">>, TextType(<<"i","n","t">>), <<>>, <<>>),
    MemberDef("function", "public", o.id \o <<"c">>, o.local, TextType(<<>>), <<>>, <<>>),
    MemberDef("function", "public", o.id \o <<"i">>, <<"_","_","i","n","i","t","_","_">>, TextType(<<>>), <<>>, <<>>),
    MemberDef("function", "public", o.id \o <<"o">>, <<"o","p","e","r","a","t","o","r","[","]">>, RefType(Dangling, <<"Z">>),
              <<[declname |-> None, type |-> TextType(<<"i","n","t">>)]>>, <<>>),
    MemberDef("function", "public", o.id \o <<"g">>, <<"g">>, TextType(<<"T">>), <<>>,
              <<[declname |-> None, text |-> <<"t","y","p","e","n","a","m","e"," ","T">>]>>),
    MemberDef("function", "private", o.id \o <<"p">>, <<"f">>, TextType(<<"i","n","t">>), <<>>, <<>>),
    MemberDef("variable", "public", o.id \o <<"v">>, <<"f">>, TextType(<<"u","n","s","i","g","n","e","d"," ","i","n","t">>), <<>>, <<>>),
    MemberDef("variable", "public", o.id \o <<"s">>, <<"z">>, TextType(<<"s","t","a","t","i","c"," ","i","n","t">>), <<>>, <<>>),
    [MemberDef("enum", "public", o.id \o <<"E">>, <<"E">>, NoXml, <<>>, <<>>)
        EXCEPT !.values = <<EnumValue(o.id \o <<"E", "a">>, <<"a">>),
                            EnumValue(o.id \o <<"E", "b">>, <<"b">>)>>] >>

\* the sequences of at most n different elements of s
RECURSIVE Picks(_, _)
Picks(s, n) ==
    IF n = 0 THEN {<<>>}
    ELSE LET shorter == Picks(s, n - 1)
         IN  shorter \cup
             UNION {{Append(p, s[k]) : k \in {j \in 1..Len(s) :
                                                \A a \in 1..Len(p) : p[a] # s[j]}}
                    : p \in {q \in shorter : Len(q) = n - 1}}

\* <compounddef id=... kind=...> of owner o with the <memberdef>s mds
CompoundDef(o, mds) ==
    [id |-> o.id, kind |-> o.kind, compoundname |-> TextType(o.compoundname),
     bases |-> o.bases, templ |-> <<>>, members |-> mds]

\* the members of a compound that is loaded alone
MaxMembers == 2
\* the compounds of a batch, and the members of each when there are several
MaxUnits == 2
MaxPeerMembers == 1

\* the batches of one compound
Alone ==
    UNION {{<<CompoundDef(Owners[o], mds)>> : mds \in Picks(Members(Owners[o]), MaxMembers)}
           : o \in 1..Len(Owners)}

\* the batches of the owners os, in this order
RECURSIVE Together(_)
Together(os) ==
    IF os = <<>> THEN {<<>>}
    ELSE UNION {{<<CompoundDef(Owners[os[1]], mds)>> \o rest : rest \in Together(Tail(os))}
                : mds \in Picks(PeerMembers(Owners[os[1]]), MaxPeerMembers)}

Batches ==
    Alone \cup
    UNION {Together(os) : os \in {p \in Picks([k \in 1..Len(Owners) |-> k], MaxUnits) :
                                    Len(p) >= 2}}

---------------------------------------------------------------------------
(* __main__                                                                *)

STUB_DIR == <<"s","t","u","b","s","/","o","g","d","f","_","p","y","t","h","o","n","/">>

Nothing == [x \in {} |-> None]

\* a loop of lines 595-603 that goes on to line 605 after its first pass
ConstructOne ==
    /\ pc = "construct"
    /\ Len(units) < Len(batch)
    /\ \E r \in {Class_init(batch[Len(units) + 1], None, <<Len(units) + 1>>)} :
           IF r.raised
           THEN /\ pc' = "aborted"
                /\ UNCHANGED <<units, INSTANCES>>
           ELSE /\ units' = Append(units, r.self)
                /\ INSTANCES' = Registered(INSTANCES, r.self, <<Len(units) + 1>>)
                /\ pc' = "resolve"
    /\ UNCHANGED <<pin, phist, ent, iter, cpc, fixed, tries, batch, NAMESPACE, resolved, files>>

\* lines 595-603, one pass of the loop: Class(compounddef) returns and the
\* object is kept, or a check() inside it raises; nothing catches the
\* exception and the process ends
Construct ==
    /\ pc = "construct"
    /\ Len(units) < Len(batch)
    /\ \E r \in {Class_init(batch[Len(units) + 1], None, <<Len(units) + 1>>)} :
           IF r.raised
           THEN /\ pc' = "aborted"
                /\ UNCHANGED <<units, INSTANCES>>
           ELSE /\ units' = Append(units, r.self)
                /\ INSTANCES' = Registered(INSTANCES, r.self, <<Len(units) + 1>>)
                /\ pc' = IF Len(units) + 1 = Len(batch) THEN "resolve" ELSE "construct"
    /\ UNCHANGED <<pin, phist, ent, iter, cpc, fixed, tries, batch, NAMESPACE, resolved, files>>

\* line 606: parsed.resolve()
Resolve ==
    /\ pc = "resolve"
    /\ \E r \in {Class_resolve(units[resolved + 1], <<resolved + 1>>, INSTANCES, NAMESPACE)} :
           /\ units' = [units EXCEPT ![resolved + 1] = r.self]
           /\ NAMESPACE' = r.ns
    /\ resolved' = resolved + 1
    /\ pc' = "emit"
    /\ UNCHANGED <<pin, phist, ent, iter, cpc, fixed, tries, batch, INSTANCES, files>>

\* a loop of lines 605-619 that writes the file of a unit before line 606
EmitFirst ==
    /\ pc = "resolve"
    /\ Len(files) = resolved
    /\ files' = Append(files,
                       [path |-> STUB_DIR \o Replace(qualname(units[resolved + 1]), <<".">>, <<"/">>)
                                 \o <<".","p","y","i">>,
                        id |-> units[resolved + 1].xml.id,
                        text |-> str(units[resolved + 1])])
    /\ UNCHANGED <<pin, phist, ent, iter, cpc, fixed, tries, batch, units, INSTANCES,
                   NAMESPACE, resolved, pc>>

\* lines 607-619: the file of the unit just resolved is written; text is what
\* print(parsed, file=f) writes below the four lines of the header
Emit ==
    /\ pc = "emit"
    /\ files' = Append(files,
                       [path |-> STUB_DIR \o Replace(qualname(units[resolved]), <<".">>, <<"/">>)
                                 \o <<".","p","y","i">>,
                        id |-> units[resolved].xml.id,
                        text |-> str(units[resolved])])
    /\ pc' = IF resolved = Len(batch) THEN "report" ELSE "resolve"
    /\ UNCHANGED <<pin, phist, ent, iter, cpc, fixed, tries, batch, units, INSTANCES,
                   NAMESPACE, resolved>>

\* line 629: t.is_resolvable() for every t of Type.LIST
Report ==
    /\ pc = "report"
    /\ units' = List([k \in 1..Len(units) |-> Class_report(units[k], INSTANCES, NAMESPACE)])
    /\ pc' = "done"
    /\ UNCHANGED <<pin, phist, ent, iter, cpc, fixed, tries, batch, INSTANCES, NAMESPACE,
                   resolved, files>>

Init ==
    /\ batch \in Batches
    /\ units = <<>>
    /\ INSTANCES = Nothing
    /\ NAMESPACE = Nothing
    /\ pc = "construct"
    /\ resolved = 0
    /\ files = <<>>
    /\ pin = <<>> /\ phist = <<>>
    /\ ent = None /\ iter = 0 /\ cpc = "idle" /\ fixed = <<>> /\ tries = 0

Next == Construct \/ Resolve \/ Emit \/ Report

Spec == Init /\ [][Next]_vars

---------------------------------------------------------------------------
(* check() of one object, step by step                                     *)

\* a <memberdef> of class G with the name and the type text given
Named(kind, name, type) ==
    MemberDef(kind, "public", <<"G", "m">>, name, TextType(type), <<>>, <<>>)

FunctionNames == {<<"f">>, <<"o","p","e","r","a","t","o","r","[","]">>, <<"o","p","e","r","a","t","o","r","+">>, <<"o","p","e","r","a","t","o","r"," ","i","n","t">>, <<"o","p","e","r","a","t","o","r"," ","c","o","n","s","t"," ","c","h","a","r"," ","*">>,
                  <<"~","G">>, <<"c","l","a","s","s">>, <<"9","a","-","b">>, <<"9">>, <<"a"," ","b">>}
VariableNames == {<<"x">>, <<"c","l","a","s","s">>, <<"a","-","b">>, <<"-","i","n">>, <<"9">>, <<>>, <<"a",".","b">>}
TypeTexts == {<<>>, <<"i","n","t">>, <<"c","o","n","s","t"," ","G"," ","&">>, <<"s","t","a","t","i","c"," ","i","n","t">>, <<"s","t","d",":",":","v","e","c","t","o","r","<"," ","i","n","t"," ",">">>}
ParamNames == {None, <<"x">>, <<"i","n">>, <<"a"," ","b">>}
TemplateTexts == {<<"t","y","p","e","n","a","m","e"," ","T">>, <<"c","l","a","s","s"," ","T">>, <<"t","y","p","e","n","a","m","e"," ","c","l","a","s","s">>, <<"i","n","t"," ","N">>,
                  <<"s","t","d",":",":","e","n","a","b","l","e","_","i","f","<"," ","b",","," ","i","n","t"," ",">",":",":","t","y","p","e">>, <<"t","y","p","e","n","a","m","e"," ","a"," ","b">>}

\* the objects on which check() is called, as they are when __init__ starts:
\* the class and the element handed to the constructor
CheckInputs ==
    {[cls |-> "Param", xml |-> [declname |-> n, type |-> TextType(t)]] :
        n \in ParamNames, t \in TypeTexts}
    \cup {[cls |-> "Template", xml |-> [declname |-> None, text |-> t]] : t \in TemplateTexts}
    \cup {[cls |-> "Function", xml |-> Named("function", n, t)] :
            n \in FunctionNames, t \in TypeTexts}
    \cup {[cls |-> "Function", xml |-> md] :
            md \in {m \in {Members(Owners[1])[k] : k \in 1..Len(Members(Owners[1]))} :
                      m.kind = "function"}}
    \cup {[cls |-> "Function",
           xml |-> MemberDef("function", "public", <<"G", "m">>, n, TextType(t),
                             <<[declname |-> None, type |-> TextType(p)]>>, <<>>)] :
            n \in {<<"o","p","e","r","a","t","o","r","[","]">>, <<"o","p","e","r","a","t","o","r","+","+">>},
            t \in {<<>>, <<"i","n","t">>},
            p \in {<<"i","n","t">>, <<"l","o","n","g">>}}
    \cup {[cls |-> "Variable", xml |-> Named("variable", n, t)] :
            n \in VariableNames, t \in TypeTexts}
    \cup {[cls |-> "Enum", xml |-> [Named("enum", n, <<>>) EXCEPT !.values = vs]] :
            n \in {<<"E">>, <<"i","n">>},
            vs \in {<<>>, <<EnumValue(<<"G", "m", "a">>, <<"a">>)>>,
                    <<EnumValue(<<"G", "m", "a">>, <<"a">>), EnumValue(<<"G", "m", "b">>, <<"i","n">>)>>}}
    \cup {[cls |-> "Class", xml |-> b[1]] : b \in Alone}

\* X.__init__ up to self.check(), for the class of self
Fields(self) ==
    CASE self.cls = "Param" -> Ok(Param_fields(self.xml, None))
      [] self.cls = "Template" -> Ok(Template_fields(self.xml, None))
      [] self.cls = "Function" -> Function_fields(self.xml, None)
      [] self.cls = "Variable" -> Ok(Variable_fields(self.xml, None))
      [] self.cls = "Enum" -> Enum_fields(self.xml, None, <<1, 1>>)
      [] self.cls = "Class" -> Class_fields(self.xml, None, <<1>>)

\* the constructor runs up to self.check(): check() is entered, or the
\* constructor of a part of self has raised
CheckEnter ==
    /\ cpc = "init"
    /\ \E r \in {Fields(ent)} :
         /\ ent' = r.self
         /\ cpc' = IF r.raised THEN "propagated" ELSE "loop"
    /\ iter' = 1
    /\ UNCHANGED <<pin, phist, fixed, tries, batch, units, INSTANCES, NAMESPACE, pc,
                   resolved, files>>

\* one pass of the loop, lines 66-76: the rendering parses, check() returns
CheckBreak ==
    /\ cpc = "loop"
    /\ CheckStep(ent, iter) = "break"
    /\ cpc' = "returned"
    /\ tries' = tries + 1
    /\ UNCHANGED <<pin, phist, ent, iter, fixed, batch, units, INSTANCES, NAMESPACE, pc,
                   resolved, files>>

\* one pass of the loop, lines 66-79: the rendering does not parse, fix<i> runs
CheckFix ==
    /\ cpc = "loop"
    /\ CheckStep(ent, iter) = "fix"
    /\ ent' = Fix(ent, iter)
    /\ fixed' = Append(fixed, iter)
    /\ iter' = iter + 1
    /\ tries' = tries + 1
    /\ UNCHANGED <<pin, phist, cpc, batch, units, INSTANCES, NAMESPACE, pc, resolved, files>>

\* one pass of the loop, lines 66-83: the rendering does not parse and there
\* is no fix<i>: the rendering is printed and the exception raised again
CheckRaise ==
    /\ cpc = "loop"
    /\ CheckStep(ent, iter) = "raise"
    /\ cpc' = "raised"
    /\ tries' = tries + 1
    /\ UNCHANGED <<pin, phist, ent, iter, fixed, batch, units, INSTANCES, NAMESPACE, pc,
                   resolved, files>>

InitCheck ==
    /\ ent \in CheckInputs
    /\ iter = 0
    /\ cpc = "init"
    /\ fixed = <<>>
    /\ tries = 0
    /\ pin = <<>> /\ phist = <<>>
    /\ batch = <<>> /\ units = <<>> /\ INSTANCES = Nothing /\ NAMESPACE = Nothing
    /\ pc = "idle" /\ resolved = 0 /\ files = <<>>

NextCheck == CheckEnter \/ CheckBreak \/ CheckFix \/ CheckRaise

SpecCheck == InitCheck /\ [][NextCheck]_vars

---------------------------------------------------------------------------
(* simple_parse applied to its own result                                  *)

Lexemes == <<<<"c","o","n","s","t"," ">>, <<"c","l","a","s","s"," ">>, <<"t","y","p","e","n","a","m","e"," ">>, <<"X">>, <<"i","n","t">>, <<"u","n","s","i","g","n","e","d"," ">>, <<"l","o","n","g"," ">>, <<"s","t","d",":",":">>,
             <<"v","e","c","t","o","r">>, <<"<">>, <<">">>, <<","," ">>, <<"c","h","a","r"," ">>, <<"*">>, <<"&">>, <<"v","o","i","d">>, <<"v","o","l","a","t","i","l","e"," ">>, <<".",".",".">>>>

\* the lexemes of an input, and the applications of simple_parse followed
MaxLexemes == 3
MaxApplications == 2

RECURSIVE Texts(_)
Texts(n) ==
    IF n = 0 THEN {<<>>}
    ELSE Texts(n - 1) \cup {t \o Lexemes[k] : t \in Texts(n - 1), k \in 1..Len(Lexemes)}

\* name = simple_parse(name)
Translate ==
    /\ Len(phist) < MaxApplications
    /\ phist' = Append(phist, simple_parse(IF phist = <<>> THEN pin ELSE phist[Len(phist)]))
    /\ UNCHANGED <<pin, ent, iter, cpc, fixed, tries, batch, units, INSTANCES, NAMESPACE,
                   pc, resolved, files>>

InitParse ==
    /\ pin \in Texts(MaxLexemes)
    /\ phist = <<>>
    /\ ent = None /\ iter = 0 /\ cpc = "idle" /\ fixed = <<>> /\ tries = 0
    /\ batch = <<>> /\ units = <<>> /\ INSTANCES = Nothing /\ NAMESPACE = Nothing
    /\ pc = "idle" /\ resolved = 0 /\ files = <<>>

NextParse == Translate

SpecParse == InitParse /\ [][NextParse]_vars


---------------------------------------------------------------------------
(* The properties                                                          *)

\* the Type t and the Types in its parts
RECURSIVE Nested(_)
Nested(t) ==
    {t} \cup UNION {Nested(t.parts[k].t) : k \in {j \in 1..Len(t.parts) : t.parts[j].isType}}

\* the Types that m.resolve() of a member reaches
MemberTypes(m) ==
    CASE m.cls = "Function" ->
           Nested(m.returnt) \cup UNION {Nested(m.params[k].type) : k \in 1..Len(m.params)}
      [] m.cls = "Variable" -> IF m.type.isType THEN Nested(m.type.t) ELSE {}
      [] OTHER -> {}

\* the Types that c.resolve() of a unit reaches
ResolvedTypes(c) ==
    UNION {Nested(c.bases[k]) : k \in 1..Len(c.bases)}
    \cup UNION {MemberTypes(c.members[k]) : k \in 1..Len(c.members)}

\* the ids of the declarations that Class(cd) constructs an object for
Declared(cd) ==
    {cd.id}
    \cup {cd.members[k].id : k \in {j \in 1..Len(cd.members) : Yields(cd.members[j])}}
    \cup UNION {{cd.members[k].values[v].id : v \in 1..Len(cd.members[k].values)}
                : k \in {j \in 1..Len(cd.members) : Yields(cd.members[j])}}

\* C1: when check() has returned, the rendering of the object as it is then
\* parses: check() does not return after an attempt that failed
C1_ReturnedParses == cpc = "returned" => Parses(str(ent))

\* check() has returned after it applied a strategy
C1_Witness == cpc = "returned" /\ fixed # <<>> /\ Parses(str(ent))

\* C2 as claimed: every text written to a file parses
C2_EmittedParses == \A k \in 1..Len(files) : Parses(files[k].text)

\* C3: a class with the strategies fix1..fixk makes at most k + 1 attempts,
\* applies fix<i> after the i-th failed attempt and no strategy twice, and
\* raises exactly when attempt k + 1 has failed
C3_BoundedInOrder ==
    LET k == CASE ent.cls \in {"Enum", "Class"} -> 0
               [] ent.cls \in {"Param", "Template"} -> 1
               [] ent.cls = "Variable" -> 3
               [] ent.cls = "Function" -> 5
    IN  /\ tries <= k + 1
        /\ Len(fixed) <= k
        /\ \A n \in 1..Len(fixed) : fixed[n] = n
        /\ cpc = "loop" => tries = Len(fixed) /\ iter = tries + 1
        /\ cpc = "returned" => tries = Len(fixed) + 1
        /\ cpc = "raised" => tries = k + 1 /\ Len(fixed) = k /\ ~Parses(str(ent))

\* a Function whose sixth attempt failed, after fix1 .. fix5
C3_Witness == cpc = "raised" /\ ent.cls = "Function" /\ fixed = <<1, 2, 3, 4, 5>> /\ tries = 6

\* C4: resolve() of a unit is called, or has been called, only when
\* Class(compounddef) has returned for every unit of the batch
C4_Barrier ==
    (pc = "resolve" \/ resolved > 0) => Len(units) = Len(batch)

\* the first resolve() of a batch of two has returned
C4_Witness == resolved = 1 /\ Len(batch) = 2 /\ Len(units) = 2

\* C5: a file is written only when every unit of the batch is constructed, and
\* the k-th file is that of the k-th unit, written after resolve() of the
\* units 1..k and before resolve() of unit k + 2
C5_EmitAfterOwnResolve ==
    /\ Len(files) <= resolved
    /\ resolved <= Len(files) + 1
    /\ files # <<>> => Len(units) = Len(batch)
    /\ \A k \in 1..Len(files) : files[k].id = batch[k].id

\* the file of the first unit is written and the second unit is not resolved
C5_Witness == Len(files) = 1 /\ resolved = 1 /\ Len(batch) = 2

\* C5 as claimed: a file is written only after resolve() of every unit
C5_EmitAfterAllResolved == files # <<>> => resolved = Len(batch)

\* C6: resolve() called again changes nothing.  Right after c.resolve() of a
\* unit a second c.resolve() leaves the unit and NAMESPACE as they are; before
\* it, m.resolve() twice in a row on a member gives what one call gives; and
\* on a Type that resolve() has reached, resolve() and is_resolvable() leave
\* target, parts and override as they are (INSTANCES is written by no resolve())
C6_ResolveTwice ==
    /\ pc = "emit" =>
         Class_resolve(units[resolved], <<resolved>>, INSTANCES, NAMESPACE)
            = [self |-> units[resolved], ns |-> NAMESPACE]
    /\ pc = "resolve" =>
         \A i \in 1..Len(units[resolved + 1].members) :
            \E r \in {Member_resolve(units[resolved + 1].members[i], <<resolved + 1, i>>,
                                     INSTANCES, NAMESPACE)} :
                Member_resolve(r.self, <<resolved + 1, i>>, INSTANCES, r.ns) = r
    /\ \A k \in 1..resolved : \A t \in ResolvedTypes(units[k]) :
            /\ Type_resolve(t, INSTANCES, NAMESPACE) = t
            /\ Type_is_resolvable(t, INSTANCES, NAMESPACE) = t

\* resolve() of a unit has returned and has bound a target
C6_Witness ==
    /\ pc = "emit"
    /\ \E t \in ResolvedTypes(units[resolved]) : t.target # None

\* C7: after resolve() of a unit, each of its Types with a reference id has the
\* object of that id as target when the batch declares the id, whichever unit
\* was constructed or resolved first, and no target otherwise
C7_BoundById ==
    \A k \in 1..resolved : \A t \in ResolvedTypes(units[k]) :
        t.xml.refid # <<>> =>
            IF \E u \in 1..Len(batch) : t.xml.refid \in Declared(batch[u])
            THEN t.target # None /\ Deref(t.target).xml.id = t.xml.refid
            ELSE t.target = None

\* the first unit is resolved, the second is not, and a Type of the first is
\* bound to the second, which was constructed after it
C7_Witness ==
    /\ resolved = 1 /\ Len(units) = 2
    /\ \E t \in ResolvedTypes(units[1]) : t.target = <<2>>

\* C8: a Function member is overloaded exactly when another member of its
\* unit has its name
C8_OverloadedIffCollision ==
    \A u \in 1..Len(units) : \A i \in 1..Len(units[u].members) :
        units[u].members[i].cls = "Function" =>
            (units[u].members[i].overloaded
                <=> \E j \in 1..Len(units[u].members) :
                        j # i /\ units[u].members[j].name = units[u].members[i].name)

\* a constructor renamed to __init__ is overloaded with the member that had
\* that name
C8_Witness ==
    \E u \in 1..Len(units) : \E i \in 1..Len(units[u].members) :
        /\ units[u].members[i].cls = "Function"
        /\ units[u].members[i].xml.name # units[u].members[i].name
        /\ units[u].members[i].overloaded

\* C9 as claimed: the qualified name of a member is that of its unit, ".",
\* and its name, and so for a value of an Enum; it is the key of the member
\* in NAMESPACE
C9_QualifiedByContainer ==
    \A u \in 1..Len(units) : \A i \in 1..Len(units[u].members) :
        /\ qualname(units[u].members[i])
              = qualname(units[u]) \o <<".">> \o units[u].members[i].name
        /\ u <= resolved /\ units[u].members[i].cls # "Enum" =>
              \E key \in DOMAIN NAMESPACE :
                  key = qualname(units[u]) \o <<".">> \o units[u].members[i].name

\* C10 as claimed: simple_parse of a result of simple_parse is that result
C10_Idempotent == Len(phist) >= 2 => phist[2] = phist[1]

\* the Function of C11: operator[] with one <param> without <declname> whose
\* type translates to int, and a <type> without text
IndexOperator ==
    /\ ent.cls = "Function"
    /\ ent.xml.name = <<"o","p","e","r","a","t","o","r","[","]">>
    /\ ent.xml.type = TextType(<<>>)
    /\ Len(ent.xml.params) = 1
    /\ ent.xml.params[1].declname = None
    /\ simple_parse(ent.xml.params[1].type.text) = <<"i","n","t">>

\* C11 as claimed: check() of that Function returns after fix1 alone, with
\* the name __getitem__, the parameters (self, _0: int) and the return type Any
C11_IndexAccess ==
    IndexOperator /\ cpc = "returned" =>
        /\ fixed = <<1>>
        /\ str(ent) = << Line(0, <<"d","e","f"," ","_","_","g","e","t","i","t","e","m","_","_","(","s","e","l","f",","," ","_","0",":"," ","i","n","t",")"," ","-",">"," ","A","n","y",":">>),
                        Line(1, <<".",".",".">>) >>

\* C11: check() of that Function never raises, and returns after fix1 alone
\* with the name __getitem__; the rendering is then
\* "def __getitem__(self, _ : int) -> None:" with the body "..."
C11_IndexAccessAsRendered ==
    IndexOperator =>
        /\ cpc \notin {"raised", "propagated"}
        /\ cpc = "returned" =>
              /\ fixed = <<1>> /\ tries = 2
              /\ ent.name = <<"_","_","g","e","t","i","t","e","m","_","_">>
              /\ str(ent) = << Line(0, <<"d","e","f"," ","_","_","g","e","t","i","t","e","m","_","_","(","s","e","l","f",","," ","_"," ",":"," ","i","n","t",")"," ","-",">"," ","N","o","n","e",":">>),
                              Line(1, <<".",".",".">>) >>

\* check() of that Function has returned
C11_Witness == IndexOperator /\ cpc = "returned" /\ ent.name = <<"_","_","g","e","t","i","t","e","m","_","_">>

\* the aliased Types of the typedefs of a unit, with their nested parts
AliasedTypes(c) ==
    UNION {Nested(c.members[k].value.t) :
             k \in {j \in 1..Len(c.members) :
                      c.members[j].cls = "Variable" /\ c.members[j].value.isType}}

\* the Types that the units hold: those that resolve() reaches and the
\* aliased Types of the typedefs
HeldTypes ==
    UNION {ResolvedTypes(units[u]) \cup AliasedTypes(units[u]) : u \in 1..Len(units)}

\* the case of C12 for a Type t that resolve() turns into r: t has content, no
\* reference id that INSTANCES knows, a nested Type as first part, and the
\* qualified name of that part is a key of NAMESPACE
NamedFirstPart(t, r) ==
    /\ ~Type_is_empty(t)
    /\ t.xml.refid \notin DOMAIN INSTANCES
    /\ r.parts # <<>> /\ r.parts[1].isType
    /\ qualname(r.parts[1].t) \in DOMAIN NAMESPACE

\* C12: resolve() of a Type whose reference id INSTANCES does not know and
\* whose first part is a nested Type with a qualified name that is a key of
\* NAMESPACE targets the entity registered under that name
C12_BoundByQualifiedName ==
    \A t \in HeldTypes :
        LET r == Type_resolve(t, INSTANCES, NAMESPACE)
        IN  NamedFirstPart(t, r) => r.target = NAMESPACE[qualname(r.parts[1].t)]

\* the qualified name of a nested Type is the placeholder, which is never a
\* key of NAMESPACE: no Type of a run is in the case of C12
C12_NoNamedFirstPart ==
    /\ <<"?","?","?">> \notin DOMAIN NAMESPACE
    /\ \A t \in HeldTypes :
           LET r == Type_resolve(t, INSTANCES, NAMESPACE)
           IN  /\ ~NamedFirstPart(t, r)
               /\ r.parts # <<>> /\ r.parts[1].isType =>
                      qualname(r.parts[1].t) = <<"?","?","?">>

\* a Type with a nested first part and no reference id that INSTANCES knows
\* has gone through resolve()
C12_NestedFirstPart ==
    \E t \in HeldTypes :
        /\ resolved = Len(units) /\ resolved > 0
        /\ ~Type_is_empty(t) /\ t.xml.refid \notin DOMAIN INSTANCES
        /\ t.parts # <<>> /\ t.parts[1].isType

\* C13 as claimed: when resolve() of a unit has returned, each Type of its
\* bases, of its Functions' return types and parameters, of its Variables and
\* of its typedefs' aliased types, nested parts included, whose reference id
\* is a key of INSTANCES has the object of that id as target, and the
\* qualified names of its members and of the unit are keys of NAMESPACE, the
\* unit's own leading to the unit
C13_AllResolved ==
    pc = "emit" /\ resolved > 0 =>
        /\ \A t \in ResolvedTypes(units[resolved]) \cup AliasedTypes(units[resolved]) :
               t.xml.refid \in DOMAIN INSTANCES => t.target = INSTANCES[t.xml.refid]
        /\ \A k \in 1..Len(units[resolved].members) :
               qualname(units[resolved].members[k]) \in DOMAIN NAMESPACE
        /\ qualname(units[resolved]) \in DOMAIN NAMESPACE
        /\ NAMESPACE[qualname(units[resolved])] = <<resolved>>
====
